---- MODULE Spec2Model ----
(***************************************************************************)
(* Payment reconciliation, coupon redemption and serial allocation of the  *)
(* JMW_ACCESSORIES backend: bulk_orders/views.py, bulk_orders/models.py,   *)
(* bulk_orders/serializers.py, payment/views.py, webhook_router/views.py.  *)
(* Every request is served by an independent worker; the database runs in  *)
(* autocommit mode (settings.py sets no ATOMIC_REQUESTS), so every ORM     *)
(* statement outside transaction.atomic() is one committed step.           *)
(***************************************************************************)
EXTENDS Integers, Sequences, FiniteSets, TLC

\* ------------------------------------------------------------------ bounds
MaxRequests == 3
MaxEntries == 2
MaxTx == 2

\* --------------------------------------------------------------- universe
Workers == {"w1", "w2"}
Parents == {"P1", "P2"}
EntryUUIDs == <<"e1", "e2", "e3", "e4">>
EntryIds == {EntryUUIDs[i] : i \in 1..MaxEntries}
TxPool == <<"t1", "t2", "t3">>
TxRefs == {TxPool[i] : i \in 1..MaxTx}
OrderIds == {"o1"}
CouponIds == {"K1"}
NilUUID == "u0"
UUIDs == Parents \cup EntryIds \cup {NilUUID}

\* BulkOrderLink.is_expired(): timezone.now() > payment_deadline; the
\* deadline of P2 has passed, and a passed deadline stays passed
Expired(p) == p = "P2"

\* BulkOrderLink owning each CouponCode row (CouponCode.bulk_order)
CouponParent(k) == "P1"

\* ------------------------------------------------------- strings as tokens
\* A string is a sequence of tokens; Dash is the character '-'.
Dash == <<"-", 0>>
Lit(s) == <<s, 0>>

\* str(uuid.UUID): five hex groups joined by '-'
UUIDStr(u) ==
  << <<u, 1>>, Dash, <<u, 2>>, Dash, <<u, 3>>, Dash, <<u, 4>>, Dash, <<u, 5>> >>

\* uuid.UUID.hex: the same digits without the dashes
UUIDHex(u) == << <<u, 1>>, <<u, 2>>, <<u, 3>>, <<u, 4>>, <<u, 5>> >>

\* str.split('-')
RECURSIVE SplitFrom(_, _, _)
SplitFrom(s, i, cur) ==
  IF i > Len(s) THEN <<cur>>
  ELSE IF s[i] = Dash THEN <<cur>> \o SplitFrom(s, i + 1, <<>>)
  ELSE SplitFrom(s, i + 1, Append(cur, s[i]))
Split(s) == SplitFrom(s, 1, <<>>)

\* str.startswith
StartsWith(s, p) == Len(s) >= Len(p) /\ SubSeq(s, 1, Len(p)) = p

OrderPrefix == <<Lit("ORDER"), Dash>>

\* f"ORDER-{order_entry.bulk_order.id}-{order_entry.id}"
BuildReference(p, c) == OrderPrefix \o UUIDStr(p) \o <<Dash>> \o UUIDStr(c)

\* the same two ids written in the dash-free hex form
HexReference(p, c) == OrderPrefix \o UUIDHex(p) \o <<Dash>> \o UUIDHex(c)

NoneRef == <<>>
BadRefs == { <<Lit("INVALID"), Dash, Lit("REF"), Dash, Lit("123")>>,
             <<Lit("ORDER"), Dash, Lit("x")>>,
             <<Lit("ORDER"), Dash, Lit("x"), Dash, Lit("y")>> }

\* reference strings a webhook delivery may carry
RefInputs ==
  {NoneRef} \cup BadRefs
  \cup {BuildReference(p, "e1") : p \in Parents}
  \cup {HexReference(p, c) : p \in Parents, c \in {"e1", NilUUID}}

\* decoding step of bulk_order_payment_webhook
NotDecoded == [ok |-> FALSE, bulk_order_id |-> <<>>, order_entry_id |-> <<>>]
WebhookDecode(ref) ==
  IF ref = NoneRef \/ ~StartsWith(ref, OrderPrefix) THEN NotDecoded
  ELSE IF Len(Split(ref)) # 3 THEN NotDecoded
  ELSE [ok |-> TRUE, bulk_order_id |-> Split(ref)[2],
        order_entry_id |-> Split(ref)[3]]

\* UUIDField.to_python: uuid.UUID(hex=value); "" stands for ValidationError
ParseUUID(seg) ==
  IF \E u \in UUIDs : seg = UUIDHex(u)
  THEN CHOOSE u \in UUIDs : seg = UUIDHex(u)
  ELSE ""

\* ------------------------------------------------------------------ gateway
\* verify_payment(reference): nothing (timeout / transport error), a body
\* with status False, a body whose data.status is not 'success', or success
GwResults == {"none", "false", "failed", "success"}

GwFail == {"none", "false", "failed"}

\* the test with the look at data.status left out
VerifySucceeded_StatusOnly(res) == res \in {"success", "failed"}

\* `res and res.get('status') and res['data']['status'] == 'success'`
VerifySucceeded(res) == res = "success"

\* -------------------------------------------------------------------- state
VARIABLES entries, coupons, orders, txs, reqs, last, nreq,
          emails, pdfs, paidWrites

vars == <<entries, coupons, orders, txs, reqs, last, nreq,
          emails, pdfs, paidWrites>>

\* a row of OrderEntry; a deleted row keeps its last values with exists
\* FALSE and deleted TRUE, and its primary key is never issued again
NoEntry == [exists |-> FALSE, deleted |-> FALSE, bulk_order |-> "",
            serial_number |-> 0, coupon_used |-> "", paid |-> FALSE]

\* order is the primary foreign key, orders the many-to-many relation
NoTx == [exists |-> FALSE, status |-> "", order |-> "", orders |-> {},
         modified |-> 0, verified_at |-> FALSE]

Idle == [kind |-> "idle", pc |-> "idle", via |-> "", shape |-> "",
         sig |-> "", ref |-> <<>>, gw |-> "notcalled", parent |-> "",
         coupon |-> "", found |-> "", serial |-> 0, entry |-> "",
         txref |-> "", order |-> "",
         snap |-> NoTx, todo |-> {}, http |-> 0, status |-> "", msg |-> "",
         read |-> FALSE, wrote |-> FALSE]

Init ==
  /\ entries = [e \in EntryIds |-> NoEntry]
  /\ coupons = [k \in CouponIds |-> [bulk_order |-> CouponParent(k), is_used |-> FALSE]]
  /\ orders = [o \in OrderIds |-> [paid |-> FALSE, status |-> "pending"]]
  /\ txs = [t \in TxRefs |-> NoTx]
  /\ reqs = [w \in Workers |-> Idle]
  /\ last = Idle
  /\ nreq = 0
  /\ emails = [e \in EntryIds |-> 0]
  /\ pdfs = [e \in EntryIds |-> 0]
  /\ paidWrites = [e \in EntryIds |-> 0]

\* a new request is taken by the first free worker
WorkerOrder == <<"w1", "w2">>
Free(w) ==
  /\ last = Idle
  /\ reqs[w].pc = "idle"
  /\ nreq < MaxRequests
  /\ \A i \in 1..Len(WorkerOrder) :
       WorkerOrder[i] = w => \A j \in 1..(i - 1) : reqs[WorkerOrder[j]].pc # "idle"

\* worker w is at step pc of a handler, and no answer is on its way out
At(w, kind, pc) == last = Idle /\ reqs[w].kind = kind /\ reqs[w].pc = pc

\* a worker answers: the response is recorded and the worker is free again;
\* last holds the response until SendResponse hands it to the caller
Respond(w, r, http, status, msg) ==
  /\ last' = [r EXCEPT !.pc = "done", !.http = http, !.status = status,
                       !.msg = msg]
  /\ reqs' = [reqs EXCEPT ![w] = Idle]

\* the response goes out to the caller
SendResponse ==
  /\ last # Idle
  /\ last' = Idle
  /\ UNCHANGED <<entries, coupons, orders, txs, reqs, nreq, emails, pdfs, paidWrites>>

Ledger == <<entries, coupons, orders, txs>>
Sinks == <<emails, pdfs, paidWrites>>


\* ----------------------------------------------------- webhook deliveries
\* shape of an inbound request: a non-POST request with an empty body, a
\* POST whose body is not JSON, a POST with another event, a POST with
\* event charge.success
Shapes == {"get", "badjson", "other_event", "charge"}
Sigs == {"valid", "invalid"}
ShapeRefs(shape) ==
  IF shape = "charge" THEN RefInputs
  ELSE IF shape = "other_event" THEN {NoneRef, HexReference("P1", "e1")}
  ELSE {NoneRef}

\* router_webhook: "400", "500" or "bulk" (forwarded to the bulk handler).
\* payment_views.payment_webhook does not exist: the AttributeError is
\* caught by `except Exception`, raised again by the fallback call and
\* leaves the view uncaught.
RouterOutcome(shape, ref) ==
  IF shape \in {"get", "badjson"} THEN "400"
  ELSE IF StartsWith(ref, OrderPrefix) THEN "bulk"
  ELSE "500"

\* the handler with the event test left out
WebhookEntry_EventUnchecked(shape, ref) ==
  IF shape = "get"
  THEN [go |-> FALSE, http |-> 405, status |-> "error", msg |-> "Invalid method"]
  ELSE IF shape = "badjson"
  THEN [go |-> FALSE, http |-> 400, status |-> "error", msg |-> "Invalid JSON"]
  ELSE IF ~WebhookDecode(ref).ok
  THEN [go |-> FALSE, http |-> 200, status |-> "error",
        msg |-> "Invalid reference format"]
  ELSE [go |-> TRUE, http |-> 0, status |-> "", msg |-> ""]

\* bulk_order_payment_webhook up to the reference decode: the answer given
\* before the gateway is called, or go = TRUE
WebhookEntry(shape, ref) ==
  IF shape = "get"
  THEN [go |-> FALSE, http |-> 405, status |-> "error", msg |-> "Invalid method"]
  ELSE IF shape = "badjson"
  THEN [go |-> FALSE, http |-> 400, status |-> "error", msg |-> "Invalid JSON"]
  ELSE IF shape = "other_event"
  THEN [go |-> FALSE, http |-> 200, status |-> "ignored",
        msg |-> "Not a charge.success event"]
  ELSE IF ~WebhookDecode(ref).ok
  THEN [go |-> FALSE, http |-> 200, status |-> "error",
        msg |-> "Invalid reference format"]
  ELSE [go |-> TRUE, http |-> 0, status |-> "", msg |-> ""]

\* bulk_order_payment_webhook (directly or through router_webhook) up to
\* and including verify_payment(reference) and the test of its result: no
\* statement of this part touches the database
WebhookStart(w) ==
  /\ Free(w)
  /\ \E via \in {"direct", "router"}, shape \in Shapes, sig \in Sigs :
     \E ref \in ShapeRefs(shape) :
       LET r == [Idle EXCEPT !.kind = "webhook", !.via = via, !.shape = shape,
                             !.sig = sig, !.ref = ref]
           route == IF via = "router" THEN RouterOutcome(shape, ref) ELSE "bulk"
           e == WebhookEntry(shape, ref)
       IN  IF route = "400" THEN Respond(w, r, 400, "", "")
           ELSE IF route = "500" THEN Respond(w, r, 500, "", "uncaught")
           ELSE IF ~e.go THEN Respond(w, r, e.http, e.status, e.msg)
           ELSE \E res \in GwResults :
                  IF ~VerifySucceeded(res)
                  THEN Respond(w, [r EXCEPT !.gw = res], 400, "error",
                               "Payment verification failed")
                  ELSE /\ reqs' = [reqs EXCEPT ![w] =
                             [r EXCEPT !.pc = "get", !.gw = res]]
                       /\ last' = Idle
  /\ nreq' = nreq + 1
  /\ UNCHANGED <<Ledger, Sinks>>

\* the lookup by primary key alone
EntryLookup_ById(bid, eid) == {e \in EntryIds : entries[e].exists /\ e = eid}

\* OrderEntry.objects.get(id=..., bulk_order__id=...)
EntryLookup(bid, eid) ==
  {e \in EntryIds : entries[e].exists /\ e = eid /\ entries[e].bulk_order = bid}

\* the lookup and the already-paid test on the object just read
WebhookGet(w) ==
  /\ At(w, "webhook", "get")
  /\ LET d == WebhookDecode(reqs[w].ref)
         bid == ParseUUID(d.bulk_order_id)
         eid == ParseUUID(d.order_entry_id)
         r == [reqs[w] EXCEPT !.read = TRUE]
     IN  IF bid = "" \/ eid = ""
         THEN Respond(w, reqs[w], 500, "error", "Internal server error")
         ELSE IF EntryLookup(bid, eid) = {}
         THEN Respond(w, r, 404, "error", "Order entry not found")
         ELSE IF entries[eid].paid
         THEN Respond(w, [r EXCEPT !.entry = eid], 200, "success", "Already processed")
         ELSE /\ reqs' = [reqs EXCEPT ![w] = [r EXCEPT !.pc = "save", !.entry = eid]]
              /\ last' = Idle
  /\ UNCHANGED <<Ledger, Sinks, nreq>>

\* the assignment written as a flip of the value read
MarkPaid_Toggle(row) == [row EXCEPT !.paid = ~row.paid]

\* the save running the serial allocation of OrderEntry.save again
MarkPaid_Reserial(row) ==
  [row EXCEPT !.paid = TRUE, !.serial_number = row.serial_number + 1]

\* order_entry.paid = True
MarkPaid(row) == [row EXCEPT !.paid = TRUE]

\* order_entry.paid = True; order_entry.save(update_fields=['paid']): an
\* UPDATE of the one column; when the row is gone it matches nothing, save
\* raises DatabaseError and `except Exception` answers 500
WebhookSave(w) ==
  /\ At(w, "webhook", "save")
  /\ LET e == reqs[w].entry
     IN  IF entries[e].exists
         THEN /\ entries' = [entries EXCEPT ![e] = MarkPaid(@)]
              /\ paidWrites' = [paidWrites EXCEPT ![e] = @ + 1]
              /\ reqs' = [reqs EXCEPT ![w].pc = "dispatch", ![w].wrote = TRUE]
              /\ last' = Idle
         ELSE /\ entries' = entries
              /\ paidWrites' = paidWrites
              /\ Respond(w, reqs[w], 500, "error", "Internal server error")
  /\ UNCHANGED <<coupons, orders, txs, nreq, emails, pdfs>>

\* send_payment_receipt_email(order_entry), then
\* generate_payment_receipt_pdf_task(str(order_entry_id)), then the answer;
\* an exception in either call reaches `except Exception`
WebhookDispatch(w) ==
  /\ At(w, "webhook", "dispatch")
  /\ LET e == reqs[w].entry
     IN  \/ /\ emails' = [emails EXCEPT ![e] = @ + 1]
            /\ pdfs' = [pdfs EXCEPT ![e] = @ + 1]
            /\ Respond(w, reqs[w], 200, "success", "Payment verified and order updated")
         \/ /\ emails' = [emails EXCEPT ![e] = @ + 1]
            /\ pdfs' = pdfs
            /\ Respond(w, reqs[w], 500, "error", "Internal server error")
         \/ /\ emails' = emails
            /\ pdfs' = pdfs
            /\ Respond(w, reqs[w], 500, "error", "Internal server error")
  /\ UNCHANGED <<Ledger, paidWrites, nreq>>

\* ------------------------------------------------------ order submission
\* coupon codes a submission may carry: none, a real code, an unknown code
CodeInputs == {""} \cup CouponIds \cup {"ZZ"}

Existing == {e \in EntryIds : entries[e].exists}

\* primary keys issued so far
Issued == {e \in EntryIds : entries[e].exists \/ entries[e].deleted}
Submitting == {w \in Workers : reqs[w].kind = "submit"}

\* the lookup without is_used=False
CouponLookup_AnyState(code, p) ==
  {k \in CouponIds : k = code /\ coupons[k].bulk_order = p}

\* CouponCode.objects.get(code=..., bulk_order=..., is_used=False)
CouponLookup(code, p) ==
  {k \in CouponIds : k = code /\ coupons[k].bulk_order = p /\ ~coupons[k].is_used}

\* submit_order: get_object and OrderEntrySerializer.validate
SubmitValidate(w) ==
  /\ Free(w)
  /\ Cardinality(Issued) + Cardinality(Submitting) < MaxEntries
  /\ \E p \in Parents, code \in CodeInputs :
       LET r == [Idle EXCEPT !.kind = "submit", !.parent = p, !.coupon = code,
                             !.read = (code # "")]
       IN  IF code = ""
           THEN /\ reqs' = [reqs EXCEPT ![w] = [r EXCEPT !.pc = "serial"]]
                /\ last' = Idle
           ELSE IF CouponLookup(code, p) = {}
           THEN Respond(w, r, 400, "coupon_code",
                        "Invalid or already used coupon code.")
           ELSE /\ reqs' = [reqs EXCEPT ![w] = [r EXCEPT !.pc = "serial", !.found = code]]
                /\ last' = Idle
  /\ nreq' = nreq + 1
  /\ UNCHANGED <<Ledger, Sinks>>

\* aggregate(Max("serial_number")) under the parent
MaxSerial(p) ==
  LET S == {entries[e].serial_number : e \in {x \in Existing : entries[x].bulk_order = p}}
  IN  IF S = {} THEN 0 ELSE CHOOSE m \in S : \A n \in S : n <= m

\* OrderEntry.save: the `with transaction.atomic()` block -- the parent row
\* is selected FOR UPDATE, Max("serial_number") is read, the serial assigned,
\* and the commit at the end of the block releases the row again.  Every
\* statement that conflicts with the block (another block on the same
\* parent, the foreign-key check of an INSERT under it) waits for the row,
\* so the block is one step.
SubmitSerial(w) ==
  /\ At(w, "submit", "serial")
  /\ reqs' = [reqs EXCEPT ![w].pc = "insert",
                          ![w].serial = MaxSerial(reqs[w].parent) + 1]
  /\ last' = Idle
  /\ UNCHANGED <<Ledger, nreq, Sinks>>

\* uuid.uuid4 primary key of the new row
FreshEntry ==
  EntryUUIDs[CHOOSE i \in 1..MaxEntries :
               /\ EntryUUIDs[i] \notin Issued
               /\ \A j \in 1..(i - 1) : EntryUUIDs[j] \in Issued]

\* the table without the constraint
SerialTaken_Never(p, n) == FALSE

\* unique_together = ["bulk_order", "serial_number"]
SerialTaken(p, n) ==
  \E e \in Existing : entries[e].bulk_order = p /\ entries[e].serial_number = n

\* OrderEntry.save: super().save(), the INSERT of the row
SubmitInsert(w) ==
  /\ At(w, "submit", "insert")
  /\ LET r == reqs[w]
     IN  IF SerialTaken(r.parent, r.serial)
         THEN /\ Respond(w, r, 500, "error", "IntegrityError")
              /\ entries' = entries
         ELSE /\ entries' = [entries EXCEPT ![FreshEntry] =
                   [exists |-> TRUE, deleted |-> FALSE, bulk_order |-> r.parent,
                    serial_number |-> r.serial, coupon_used |-> r.found,
                    paid |-> (r.found # "")]]
              /\ IF r.found # ""
                 THEN /\ reqs' = [reqs EXCEPT ![w] =
                            [r EXCEPT !.pc = "coupon", !.entry = FreshEntry,
                                      !.wrote = TRUE]]
                      /\ last' = Idle
                 ELSE Respond(w, [r EXCEPT !.entry = FreshEntry, !.wrote = TRUE],
                              201, "created", "")
  /\ UNCHANGED <<coupons, orders, txs, nreq, Sinks>>

\* OrderEntrySerializer.create: coupon_used.is_used = True; coupon_used.save()
SubmitCoupon(w) ==
  /\ At(w, "submit", "coupon")
  /\ coupons' = [coupons EXCEPT ![reqs[w].found].is_used = TRUE]
  /\ Respond(w, reqs[w], 201, "created", "")
  /\ UNCHANGED <<entries, orders, txs, nreq, Sinks>>

\* OrderEntryViewSet (a ModelViewSet) destroy: get_object, instance.delete()
EntryDestroy(w) ==
  /\ Free(w)
  /\ \E e \in Existing :
       /\ entries' = [entries EXCEPT ![e].exists = FALSE, ![e].deleted = TRUE]
       /\ Respond(w, [Idle EXCEPT !.kind = "destroy", !.entry = e,
                                  !.read = TRUE, !.wrote = TRUE], 204, "", "")
  /\ nreq' = nreq + 1
  /\ UNCHANGED <<coupons, orders, txs, Sinks>>

\* OrderEntryViewSet.initialize_payment: builds the reference and calls the
\* gateway's initialize; ok is the gateway's answer
EntryInitPayment(w) ==
  /\ Free(w)
  /\ \E e \in Existing, ok \in BOOLEAN :
       LET r == [Idle EXCEPT !.kind = "entry_init", !.entry = e, !.read = TRUE]
       IN  IF entries[e].paid
           THEN Respond(w, r, 400, "error", "This order has already been paid")
           ELSE IF ok
           THEN Respond(w, [r EXCEPT !.ref = BuildReference(entries[e].bulk_order, e)],
                        200, "", "")
           ELSE Respond(w, [r EXCEPT !.ref = BuildReference(entries[e].bulk_order, e)],
                        400, "error", "Payment initialization failed")
  /\ nreq' = nreq + 1
  /\ UNCHANGED <<Ledger, Sinks>>

\* ------------------------------------------------------- regular payments
\* InitializePaymentView: the order lookup and PaymentTransaction.objects
\* .create(reference=f"JMW-{uuid4().hex[:8].upper()}", status='pending');
\* reference is unique, a repeated value raises IntegrityError
InitCreate(w) ==
  /\ Free(w)
  /\ \E o \in OrderIds \cup {"o0"}, t \in TxRefs :
       LET r == [Idle EXCEPT !.kind = "init", !.order = o, !.txref = t,
                             !.read = TRUE]
       IN  IF o \notin OrderIds
           THEN /\ Respond(w, r, 404, "", "Not found")
                /\ txs' = txs
           ELSE IF txs[t].exists
           THEN /\ Respond(w, r, 500, "error", "IntegrityError")
                /\ txs' = txs
           ELSE /\ txs' = [txs EXCEPT ![t] =
                     [exists |-> TRUE, status |-> "pending", order |-> "",
                      orders |-> {}, modified |-> 0, verified_at |-> FALSE]]
                /\ reqs' = [reqs EXCEPT ![w] = [r EXCEPT !.pc = "i_add", !.wrote = TRUE]]
                /\ last' = Idle
  /\ nreq' = nreq + 1
  /\ UNCHANGED <<entries, coupons, orders, Sinks>>

\* InitializePaymentView: transaction.orders.add(order), then the gateway's
\* initialize and the answer
InitAdd(w) ==
  /\ At(w, "init", "i_add")
  /\ txs' = [txs EXCEPT ![reqs[w].txref].orders = @ \cup {reqs[w].order}]
  /\ \E ok \in BOOLEAN :
       IF ok THEN Respond(w, reqs[w], 200, "", "")
       ELSE Respond(w, reqs[w], 400, "error", "Payment initialization failed")
  /\ UNCHANGED <<entries, coupons, orders, nreq, Sinks>>

\* references a client may ask VerifyPaymentView about: blank (rejected by
\* PaymentVerifySerializer), a reference of the pool, an unknown one
VerifyRefInputs == {""} \cup TxRefs \cup {"tx"}

\* VerifyPaymentView.post: the serializer, verify_payment(reference) and
\* the test of its result
VerifyStart(w) ==
  /\ Free(w)
  /\ \E t \in VerifyRefInputs :
       LET r == [Idle EXCEPT !.kind = "verify", !.txref = t]
       IN  IF t = ""
           THEN Respond(w, r, 400, "error", "This field may not be blank.")
           ELSE \E res \in GwResults :
                  IF ~VerifySucceeded(res)
                  THEN Respond(w, [r EXCEPT !.gw = res], 400, "error",
                               "Payment verification failed")
                  ELSE /\ reqs' = [reqs EXCEPT ![w] =
                             [r EXCEPT !.pc = "v_get", !.gw = res]]
                       /\ last' = Idle
  /\ nreq' = nreq + 1
  /\ UNCHANGED <<Ledger, Sinks>>

\* PaymentTransaction.objects.get(reference=reference)
VerifyGet(w) ==
  /\ At(w, "verify", "v_get")
  /\ LET t == reqs[w].txref
         r == [reqs[w] EXCEPT !.read = TRUE]
     IN  IF t \notin TxRefs \/ ~txs[t].exists
         THEN Respond(w, r, 404, "error", "Transaction not found")
         ELSE /\ reqs' = [reqs EXCEPT ![w] = [r EXCEPT !.pc = "v_save", !.snap = txs[t]]]
              /\ last' = Idle
  /\ UNCHANGED <<Ledger, Sinks, nreq>>

\* transaction.status = 'success'; transaction.save(): every column is
\* written from the object read by VerifyGet, `modified` is auto_now
VerifySave(w) ==
  /\ At(w, "verify", "v_save")
  /\ LET t == reqs[w].txref
     IN  txs' = [txs EXCEPT ![t].status = "success",
                            ![t].verified_at = reqs[w].snap.verified_at,
                            ![t].modified = @ + 1]
  /\ reqs' = [reqs EXCEPT ![w].pc = "v_orders", ![w].wrote = TRUE]
  /\ last' = Idle
  /\ UNCHANGED <<entries, coupons, orders, nreq, Sinks>>

\* the view after its writes: `if settings.USE_CELERY_EMAIL:` -- settings.py
\* defines no such name, the AttributeError is not a
\* PaymentTransaction.DoesNotExist and leaves the view
VerifyTail(w, r) == Respond(w, r, 500, "error", "uncaught")

\* for order in transaction.orders.all(): the query
VerifyOrders(w) ==
  /\ At(w, "verify", "v_orders")
  /\ LET todo == txs[reqs[w].txref].orders
     IN  IF todo = {}
         THEN VerifyTail(w, reqs[w])
         ELSE /\ reqs' = [reqs EXCEPT ![w].todo = todo, ![w].pc = "v_loop"]
              /\ last' = Idle
  /\ UNCHANGED <<Ledger, nreq, Sinks>>

\* order.paid = True; order.status = 'paid'; order.save(), and after the
\* last order the rest of the view
VerifyOrderSave(w) ==
  /\ At(w, "verify", "v_loop")
  /\ \E o \in reqs[w].todo :
       /\ orders' = [orders EXCEPT ![o] = [paid |-> TRUE, status |-> "paid"]]
       /\ IF reqs[w].todo = {o}
          THEN VerifyTail(w, reqs[w])
          ELSE /\ reqs' = [reqs EXCEPT ![w].todo = @ \ {o}]
               /\ last' = Idle
  /\ UNCHANGED <<entries, coupons, txs, nreq, Sinks>>

\* ------------------------------------------------------------ specification
Handle(w) ==
    \/ WebhookStart(w)
    \/ WebhookGet(w)
    \/ WebhookSave(w)
    \/ WebhookDispatch(w)
    \/ SubmitValidate(w)
    \/ SubmitSerial(w)
    \/ SubmitInsert(w)
    \/ SubmitCoupon(w)
    \/ EntryDestroy(w)
    \/ EntryInitPayment(w)
    \/ InitCreate(w)
    \/ InitAdd(w)
    \/ VerifyStart(w)
    \/ VerifyGet(w)
    \/ VerifySave(w)
    \/ VerifyOrders(w)
    \/ VerifyOrderSave(w)

Next == SendResponse \/ \E w \in Workers : Handle(w)

Spec == Init /\ [][Next]_vars

TypeOK ==
  /\ nreq \in 0..MaxRequests
  /\ \A e \in EntryIds : entries[e].paid \in BOOLEAN

\* ------------------------------------------------------------- properties
\* the entry named by a reference as initialize_payment builds it
IssuedFor(ref) ==
  {e \in Existing : ref = BuildReference(entries[e].bulk_order, e)}

\* a charge.success delivery has just been answered and the gateway did not
\* report a failure for it
AnsweredCharge ==
  last.kind = "webhook" /\ last.shape = "charge" /\ last.gw \notin GwFail

\* C1: deliveries of charge.success for the reference of an entry that was
\* submitted unpaid leave exactly one paid write, one receipt email and one
\* receipt PDF dispatch behind, and each is answered as processed or as
\* 'Already processed'.
C1_Idempotent ==
  AnsweredCharge =>
    \A e \in IssuedFor(last.ref) :
      entries[e].coupon_used = "" =>
        /\ paidWrites[e] = 1 /\ emails[e] = 1 /\ pdfs[e] = 1
        /\ last.http = 200
        /\ last.msg \in {"Payment verified and order updated", "Already processed"}

\* C2: in every interleaving at most one delivery performs the paid write
\* of an entry and at most one dispatches its receipt, and at most one
\* verification writes a transaction.
C2_AtMostOnce ==
  /\ \A e \in EntryIds : paidWrites[e] <= 1 /\ emails[e] <= 1 /\ pdfs[e] <= 1
  /\ \A t \in TxRefs : txs[t].modified <= 1

C4_SignatureEnforced ==
  /\ \A w \in Workers :
       (reqs[w].kind = "webhook" /\ reqs[w].sig # "valid") =>
         (~reqs[w].read /\ ~reqs[w].wrote)
  /\ (last.kind = "webhook" /\ last.sig # "valid") =>
       (last.http \notin 200..299 /\ ~last.read /\ ~last.wrote)

\* C5: at most one entry references a coupon, and a submission that redeems
\* a coupon already referenced by an entry is not accepted.
C5_CouponOnce ==
  \A k \in CouponIds :
    Cardinality({e \in Existing : entries[e].coupon_used = k}) <= 1

\* C6: in every committed state a coupon is used exactly when a paid entry
\* references it.
C6_CouponAtomic ==
  \A k \in CouponIds :
    coupons[k].is_used <=>
      \E e \in Existing : entries[e].coupon_used = k /\ entries[e].paid

\* C7: every creation succeeds and the serial numbers under a parent are
\* exactly 1..N.
C7_SerialsGapless ==
  /\ ~(last.kind = "submit" /\ last.http = 500)
  /\ \A p \in Parents :
       LET under == {e \in Existing : entries[e].bulk_order = p}
       IN  {entries[e].serial_number : e \in under} = 1..Cardinality(under)

\* C8: the reference initialize_payment builds for an entry decodes, in the
\* webhook, to that entry's bulk order id and to its own id.
C8_RoundTrip ==
  (last.kind = "entry_init" /\ last.http = 200) =>
    LET d == WebhookDecode(last.ref)
    IN  /\ d.ok
        /\ ParseUUID(d.bulk_order_id) = entries[last.entry].bulk_order
        /\ ParseUUID(d.order_entry_id) = last.entry

\* C9: a charge.success delivery carrying ORDER-{P}-{C} for an existing
\* entry C under P, confirmed by the gateway, is answered 200 / 'success'
\* and leaves C paid with its receipt dispatched.
C9_FreshSuccess ==
  AnsweredCharge =>
    \A e \in IssuedFor(last.ref) :
      /\ last.http = 200 /\ last.status = "success"
      /\ entries[e].paid
      /\ (entries[e].coupon_used = "" => emails[e] >= 1 /\ pdfs[e] >= 1)

\* C10: a transaction in state success or failed is never written again,
\* and status only moves pending -> success or pending -> failed.
C10_TerminalStatus ==
  [][\A t \in TxRefs :
       /\ (txs[t].exists /\ txs[t].status \in {"success", "failed"}) =>
            txs'[t] = txs[t]
       /\ (txs[t].exists /\ txs[t].status # txs'[t].status) =>
            (txs[t].status = "pending" /\ txs'[t].status \in {"success", "failed"})]_vars

\* a verification whose gateway call succeeded has been answered; last.snap
\* is the transaction as the view read it
AnsweredVerify ==
  last.kind = "verify" /\ last.gw = "success" /\ last.snap.exists

\* the orders of a transaction: the primary foreign key and the relation
TxOrders(t) == (txs[t].orders \cup {txs[t].order}) \ {""}

\* C11: verifying a reference whose transaction is already in state success
\* is answered 200 'already verified' and writes nothing.
C11_VerifyIdempotent ==
  (AnsweredVerify /\ last.snap.status = "success") =>
    /\ last.http = 200
    /\ last.msg = "already verified"
    /\ ~last.wrote
    /\ txs[last.txref] = last.snap

\* C12: a transaction in state success has verified_at set, a pending one
\* has it null.
C12_VerifiedAtStamped ==
  \A t \in TxRefs :
    txs[t].exists =>
      /\ (txs[t].status = "success" => txs[t].verified_at)
      /\ (txs[t].status = "pending" => ~txs[t].verified_at)

\* C13: a verification of a pending transaction confirmed by the gateway is
\* answered 200 / 'success' and leaves the transaction in state success and
\* each of its orders paid with status 'paid'.
C13_VerifySuccess ==
  (AnsweredVerify /\ last.snap.status = "pending") =>
    /\ last.http = 200 /\ last.status = "success"
    /\ txs[last.txref].status = "success"
    /\ \A o \in TxOrders(last.txref) :
         orders[o].paid /\ orders[o].status = "paid"

\* C14: in every state a paid entry records a consumed coupon and a paid
\* order belongs to a transaction in state success (no transaction can
\* reference an entry: PaymentTransaction relates to Order only).
C14_PaidBacked ==
  /\ \A e \in Existing :
       entries[e].paid =>
         /\ entries[e].coupon_used # ""
         /\ coupons[entries[e].coupon_used].is_used
  /\ \A o \in OrderIds :
       orders[o].paid =>
         \E t \in TxRefs :
           txs[t].exists /\ txs[t].status = "success" /\ o \in TxOrders(t)

\* C15: no step sets paid of an entry or of an order back to False.
C15_PaidMonotonic ==
  [][/\ \A e \in EntryIds : entries[e].paid => entries'[e].paid
     /\ \A o \in OrderIds : orders[o].paid => orders'[o].paid]_vars

\* C15 witness: an entry is paid after two deliveries wrote its paid flag
C15_Witness ==
  \E e \in EntryIds : entries[e].paid /\ paidWrites[e] >= 2

\* C16: a charge.success delivery whose reference is missing, does not start
\* with ORDER- or does not split into three segments is answered 200 with
\* status 'error', and no ledger record is read or written for it.
C16_MalformedReference ==
  (last.kind = "webhook" /\ last.shape = "charge" /\ ~WebhookDecode(last.ref).ok) =>
    /\ last.http = 200 /\ last.status = "error"
    /\ ~last.read /\ ~last.wrote

\* C17: a delivery with another event is answered 200 with status 'ignored',
\* writes nothing and does not call the gateway.
C17_OtherEventIgnored ==
  (last.kind = "webhook" /\ last.shape = "other_event") =>
    /\ last.http = 200 /\ last.status = "ignored"
    /\ last.gw = "notcalled"
    /\ ~last.read /\ ~last.wrote

\* C18: a non-POST request is answered 405 and a POST whose body is not
\* JSON is answered 400, directly and through router_webhook, and neither
\* writes a ledger record.
C18_MethodAndJson ==
  /\ (last.kind = "webhook" /\ last.shape = "get") =>
       (last.http = 405 /\ ~last.wrote)
  /\ (last.kind = "webhook" /\ last.shape = "badjson") =>
       (last.http = 400 /\ ~last.wrote)

\* the parent and the child a reference names, in either written form
Names(ref, p, c) == ref = BuildReference(p, c) \/ ref = HexReference(p, c)

\* C19: a charge.success delivery confirmed by the gateway whose reference
\* ORDER-{parent uuid}-{child uuid} names a child without an OrderEntry is
\* answered 404 'Order entry not found' and writes nothing.
C19_EntryNotFound ==
  AnsweredCharge =>
    \A p \in Parents, c \in UUIDs :
      (Names(last.ref, p, c) /\ EntryLookup(p, c) = {}) =>
        /\ last.http = 404
        /\ last.msg = "Order entry not found"
        /\ ~last.wrote

\* C20: every request through router_webhook is answered by a handler: one
\* whose reference starts with ORDER- by the bulk-order handler, and none
\* ends in an exception that leaves the view.
C20_RouterTotal ==
  (last.kind = "webhook" /\ last.via = "router") =>
    /\ last.msg # "uncaught"
    /\ (last.shape \in {"other_event", "charge"}
          /\ StartsWith(last.ref, OrderPrefix)) =>
         last.status \in {"ignored", "error", "success"}

\* C21: receipts are dispatched only after the paid write, and a request
\* that has committed its write is answered as a success whatever becomes of
\* the dispatch; the committed state stays.
C21_DispatchAfterCommit ==
  /\ \A e \in EntryIds : emails[e] <= paidWrites[e] /\ pdfs[e] <= paidWrites[e]
  /\ (last.kind = "webhook" /\ last.wrote) =>
       (entries[last.entry].paid /\ last.http = 200)
  /\ (last.kind = "verify" /\ last.wrote) =>
       (txs[last.txref].status = "success" /\ last.http = 200)

\* C22: initialization for a paid order or a paid entry is answered 400
\* 'already been paid' and creates no transaction.
C22_NoInitWhenPaid ==
  [][/\ (last'.kind = "entry_init" /\ entries[last'.entry].paid) =>
          (last'.http = 400 /\ last'.msg = "This order has already been paid")
     /\ \A w \in Workers :
          (reqs[w].pc = "idle" /\ reqs'[w].kind = "init"
             /\ orders[reqs'[w].order].paid) => txs' = txs
     /\ (last'.kind = "init" /\ last'.order \in OrderIds
          /\ orders[last'.order].paid) =>
          (last'.http = 400 /\ txs' = txs)]_vars

\* C23: an order never has more than one pending transaction: a further
\* initialization reuses the pending one.
C23_InitReuses ==
  \A o \in OrderIds :
    Cardinality({t \in TxRefs : /\ txs[t].exists
                               /\ txs[t].status = "pending"
                               /\ o \in TxOrders(t)}) <= 1

\* C24: a submission under an expired bulk order is answered 400 and
\* creates nothing; no entry exists under a bulk order that was expired
\* when it was submitted.
C24_NoExpiredSubmission ==
  /\ \A e \in Issued : ~Expired(entries[e].bulk_order)
  /\ (last.kind = "submit" /\ Expired(last.parent)) =>
       (last.http = 400 /\ ~last.wrote)

\* two stored entries under one parent with one serial number
SerialClash ==
  \E a \in Existing, b \in Existing :
    /\ a # b
    /\ entries[a].bulk_order = entries[b].bulk_order
    /\ entries[a].serial_number = entries[b].serial_number

\* C25: no two entries under a parent share a serial number, and an INSERT
\* with a serial number already stored under the parent ends in an
\* IntegrityError that leaves the entries as they were.
C25_SerialUnique ==
  /\ []~SerialClash
  /\ [][\A w \in Workers :
          (/\ reqs[w].kind = "submit" /\ reqs[w].pc = "insert"
           /\ reqs'[w] # reqs[w]
           /\ \E e \in Existing :
                /\ entries[e].bulk_order = reqs[w].parent
                /\ entries[e].serial_number = reqs[w].serial) =>
            (last'.msg = "IntegrityError" /\ entries' = entries)]_vars

\* C25 witness: an INSERT has been refused for its serial number
C25_Witness ==
  last.kind = "submit" /\ last.msg = "IntegrityError" /\ last.serial = 1

\* C26: the serials present under a parent are 1..N, and a new entry's
\* serial is greater than every serial issued earlier under its parent.
C26_SerialsIncreasing ==
  /\ [](\A p \in Parents :
          LET under == {e \in Existing : entries[e].bulk_order = p}
          IN  {entries[e].serial_number : e \in under} = 1..Cardinality(under))
  /\ [][\A e \in EntryIds :
          (~entries[e].exists /\ entries'[e].exists) =>
            \A x \in Issued :
              entries[x].bulk_order = entries'[e].bulk_order =>
                entries'[e].serial_number > entries[x].serial_number]_vars

\* C27: a submission whose coupon code is unknown, used or owned by another
\* bulk order is answered 400 on coupon_code in its first step and changes
\* neither entries nor coupons.
C27_BadCouponRejected ==
  [][\A w \in Workers :
       LET r == IF reqs'[w].pc # "idle" THEN reqs'[w] ELSE last'
       IN  (/\ reqs[w].pc = "idle" /\ nreq' = nreq + 1
            /\ r.kind = "submit" /\ r.coupon # ""
            /\ \/ r.coupon \notin CouponIds
               \/ coupons[r.coupon].is_used
               \/ coupons[r.coupon].bulk_order # r.parent) =>
             /\ last'.kind = "submit"
             /\ last'.http = 400 /\ last'.status = "coupon_code"
             /\ entries' = entries /\ coupons' = coupons]_vars

\* C27 witness: a submission with the used coupon K1 has been refused
C27_Witness ==
  /\ last.kind = "submit" /\ last.http = 400
  /\ last.coupon = "K1" /\ last.parent = "P1"
  /\ coupons["K1"].is_used

WebhookStep(w) ==
  /\ reqs'[w] # reqs[w]
  /\ reqs[w].kind = "webhook" \/ reqs'[w].kind = "webhook" \/ last'.kind = "webhook"

WebhookRecs == {r \in {reqs[w] : w \in Workers} \cup {last} : r.kind = "webhook"}

\* C30: the gateway is called only for a charge.success delivery whose
\* reference decoded, the ledger is read only after the gateway reported
\* success, the paid write follows the lookup, and receipts are dispatched
\* only after the paid write.
C30_StepOrder ==
  /\ \A r \in WebhookRecs :
       /\ r.gw # "notcalled" => (r.shape = "charge" /\ WebhookDecode(r.ref).ok)
       /\ r.read => r.gw = "success"
       /\ r.entry # "" => r.read
       /\ r.wrote => r.entry # ""
       /\ r.pc = "dispatch" => r.wrote
       /\ r.msg = "Payment verified and order updated" => r.wrote
  /\ \A e \in EntryIds : emails[e] <= paidWrites[e] /\ pdfs[e] <= emails[e]

\* C30 witness: a delivery through the router has gone through every step
C30_Witness ==
  /\ last.kind = "webhook" /\ last.via = "router"
  /\ last.wrote /\ last.http = 200
  /\ emails[last.entry] >= 1 /\ pdfs[last.entry] >= 1

====
